---- MODULE Spec2Model ----
(***************************************************************************)
(* i3lock unlock indicator (unlock_indicator.c): the state holder          *)
(* (unlock_state, auth_state), draw_image, the cached background pixmap    *)
(* (bg_pixmap, free_bg_pixmap), redraw_screen and clear_indicator.         *)
(*                                                                         *)
(* A picture is modelled by the drawing calls the code issues: which       *)
(* source colour is current at each stroke / show_text, which text is      *)
(* shown, where each buffer is composited.  Colours are palette indices    *)
(* of the nord scheme (NORD(n)).                                           *)
(***************************************************************************)
EXTENDS Integers, Sequences, FiniteSets, TLC

VARIABLES
    unlock_state,          \* unlock_state_t unlock_state
    auth_state,            \* auth_state_t auth_state
    input_position,        \* extern int input_position
    failed_attempts,       \* extern int failed_attempts
    modifier_string,       \* extern char *modifier_string
    unlock_indicator,      \* extern bool unlock_indicator
    clock_visible,         \* extern bool clock_visible
    show_failed_attempts,  \* extern bool show_failed_attempts
    img,                   \* extern cairo_surface_t *img (TRUE: an image is loaded)
    tile,                  \* extern bool tile
    color,                 \* extern char color[7]
    last_resolution,       \* extern uint32_t last_resolution[2]
    xr_resolutions,        \* randr.h: xr_resolutions[0 .. xr_screens-1]
    dpi,                   \* value get_dpi_value() returns
    now,                   \* broken-down local time that time()/localtime() return
    rand_next,             \* state of the C library generator behind rand()
    rand_calls,            \* rand() calls since the generator was last seeded
    bg_pixmap,             \* static xcb_pixmap_t bg_pixmap
    next_id,               \* last resource id handed out for a pixmap
    pixmap_size,           \* size bg_pixmap was created with
    surface,               \* drawing operations held by bg_pixmap
    invalidated,           \* history: no redraw since start-up or the last free_bg_pixmap
    repeated,              \* history: the last redraw read what the one before it read
    frame,                 \* what the window shows: result of the last presentation
    ops                    \* X / cairo calls made by the most recent operation

vars == <<unlock_state, auth_state, input_position, failed_attempts,
          modifier_string, unlock_indicator, clock_visible,
          show_failed_attempts, img, tile, color, last_resolution,
          xr_resolutions, dpi, now, rand_next, rand_calls, bg_pixmap,
          next_id, pixmap_size, surface, invalidated, repeated, frame, ops>>

holder == <<unlock_state, auth_state, input_position, failed_attempts,
            modifier_string>>
config == <<unlock_indicator, clock_visible, show_failed_attempts, img, tile,
            color>>
geometry == <<last_resolution, xr_resolutions, dpi>>
pixmap == <<bg_pixmap, next_id, pixmap_size, surface, invalidated,
            repeated>>

(***************************************************************************)
(* Bounds of the model.                                                    *)
(***************************************************************************)
MaxInput == 1        \* input_position ranges over 0 .. MaxInput
MaxRandCalls == 1    \* rand() calls explored after each seeding
MaxPixmaps == 2      \* pixmaps allocated in one behaviour

(***************************************************************************)
(* Constants of the program.                                               *)
(***************************************************************************)
BUTTON_RADIUS == 90
BUTTON_SPACE == BUTTON_RADIUS + 5
BUTTON_CENTER == BUTTON_RADIUS + 5
BUTTON_DIAMETER == 2 * BUTTON_SPACE
CLOCK_WIDTH == 240
CLOCK_HEIGHT == 84
CLOCK_MARGIN == 24
XCB_NONE == 0
NULL == "(null)"

\* unlock_state_t and auth_state_t (unlock_indicator.h)
STATE_STARTED == 0
STATE_KEY_PRESSED == 1
STATE_KEY_ACTIVE == 2
STATE_BACKSPACE_ACTIVE == 3
STATE_NOTHING_TO_DELETE == 4
STATE_AUTH_IDLE == 0
STATE_AUTH_VERIFY == 1
STATE_AUTH_LOCK == 2
STATE_AUTH_WRONG == 3
STATE_I3LOCK_LOCK_FAILED == 4

UnlockStates == {STATE_STARTED, STATE_KEY_PRESSED, STATE_KEY_ACTIVE,
                 STATE_BACKSPACE_ACTIVE, STATE_NOTHING_TO_DELETE}
AuthStates == {STATE_AUTH_IDLE, STATE_AUTH_VERIFY, STATE_AUTH_LOCK,
               STATE_AUTH_WRONG, STATE_I3LOCK_LOCK_FAILED}

\* NORD(n): the source colour nord<n> of the palette
NORD(n) == n

(***************************************************************************)
(* Helpers of draw_image.                                                  *)
(***************************************************************************)
\* ceil(scaling_factor * n) with scaling_factor = get_dpi_value() / 96.0;
\* for the DPI values used (Dpis) the double arithmetic is exact
Physical(d, n) == (d * n + 95) \div 96

DigitChar(d) ==
    CASE d = 0 -> "0" [] d = 1 -> "1" [] d = 2 -> "2" [] d = 3 -> "3"
      [] d = 4 -> "4" [] d = 5 -> "5" [] d = 6 -> "6" [] d = 7 -> "7"
      [] d = 8 -> "8" [] d = 9 -> "9"

RECURSIVE Digits(_)
\* the characters "%d" produces for n >= 0, most significant first
Digits(n) == IF n < 10 THEN <<DigitChar(n)>>
             ELSE Append(Digits(n \div 10), DigitChar(n % 10))

RECURSIVE Join(_)
Join(s) == IF s = <<>> THEN "" ELSE Head(s) \o Join(Tail(s))

\* snprintf(buf, size, "%d", n): at most size - 1 characters are stored
Snprintf(size, n) ==
    LET d == Digits(n)
        k == IF Len(d) < size - 1 THEN Len(d) ELSE size - 1
    IN  Join(SubSeq(d, 1, k))

IndicatorShownStrict(ui, u, a) ==
    ui /\ (u > STATE_KEY_PRESSED \/ a > STATE_AUTH_IDLE)

\* the condition guarding the indicator block
IndicatorShown(ui, u, a) ==
    ui /\ (u >= STATE_KEY_PRESSED \/ a > STATE_AUTH_IDLE)

RingColorNoLockFailed(a, u, src) ==
    CASE a \in {STATE_AUTH_VERIFY, STATE_AUTH_LOCK} -> NORD(10)
      [] a = STATE_AUTH_WRONG -> NORD(11)
      [] a = STATE_AUTH_IDLE ->
            IF u = STATE_NOTHING_TO_DELETE THEN NORD(12) ELSE NORD(3)
      [] OTHER -> src

\* source colour current at cairo_stroke of the outer ring; src is the
\* colour set before the switch (the fill colour of the disc)
RingColor(a, u, src) ==
    CASE a \in {STATE_AUTH_VERIFY, STATE_AUTH_LOCK} -> NORD(10)
      [] a \in {STATE_AUTH_WRONG, STATE_I3LOCK_LOCK_FAILED} -> NORD(11)
      [] a = STATE_AUTH_IDLE ->
            IF u = STATE_NOTHING_TO_DELETE THEN NORD(12) ELSE NORD(3)
      [] OTHER -> src

\* the default: label of the first text switch
TextColorDefault(u, src) ==
    IF u = STATE_NOTHING_TO_DELETE THEN NORD(12) ELSE src

\* source colour after the first text switch; WRONG / LOCK_FAILED set nord11
\* and run on into the default: label
TextColorSwitch(a, u) ==
    CASE a \in {STATE_AUTH_VERIFY, STATE_AUTH_LOCK} -> NORD(9)
      [] a \in {STATE_AUTH_WRONG, STATE_I3LOCK_LOCK_FAILED} ->
            TextColorDefault(u, NORD(11))
      [] OTHER -> TextColorDefault(u, NORD(4))

CounterOverflowsLate(n) == n > 9999

\* failed_attempts > 999
CounterOverflows(n) == n > 999

\* the text the failed-attempt branch selects
CounterText(n) ==
    IF CounterOverflows(n) THEN "> 999" ELSE Snprintf(4, n)

\* the failed-attempt branch is taken
CounterShown(a, show, n) ==
    /\ a \notin {STATE_AUTH_VERIFY, STATE_AUTH_LOCK, STATE_AUTH_WRONG,
                 STATE_I3LOCK_LOCK_FAILED}
    /\ show /\ n > 0

TextDefaultNoInputFirst(u, show, n) ==
    IF u = STATE_NOTHING_TO_DELETE THEN "No input"
    ELSE IF show /\ n > 0 THEN CounterText(n) ELSE NULL

\* the default: label of the second text switch
TextDefault(u, show, n) ==
    LET t1 == IF u = STATE_NOTHING_TO_DELETE THEN "No input" ELSE NULL
    IN  IF show /\ n > 0 THEN CounterText(n) ELSE t1

\* char *text after the second text switch ("..." stands for the
\* ellipsis character of the source)
StatusText(a, u, show, n) ==
    CASE a = STATE_AUTH_VERIFY -> "Verifying..."
      [] a = STATE_AUTH_LOCK -> "Locking..."
      [] a = STATE_AUTH_WRONG -> "Wrong!"
      [] a = STATE_I3LOCK_LOCK_FAILED -> "Lock failed!"
      [] OTHER -> TextDefault(u, show, n)

\* source colour current at cairo_show_text(ctx, text)
TextColor(a, u, show, n) ==
    IF CounterShown(a, show, n) THEN NORD(11) ELSE TextColorSwitch(a, u)

\* rand(): the C library leaves the generator unspecified; a 16-bit linear
\* congruential generator stands for it.  The value returned is the new state.
Rand(s) == (s * 25173 + 13849) % 65536

\* rand() is reached: the highlight block runs
HighlightShown(ui, u, a) ==
    IndicatorShown(ui, u, a)
        /\ (u = STATE_KEY_ACTIVE \/ u = STATE_BACKSPACE_ACTIVE)

\* highlight_start, in hundredths of a radian: (int)(2 * M_PI * 100) = 628
HighlightStart(r) == r % 628

\* source colour of the highlighted arc
HighlightColor(u) == IF u = STATE_KEY_ACTIVE THEN NORD(7) ELSE NORD(11)

NoHighlight == [shown |-> FALSE, start |-> 0, color |-> NORD(0)]

BlankIndicator ==
    [ring |-> FALSE, fill |-> NORD(0), ringColor |-> NORD(0),
     text |-> NULL, textColor |-> NORD(0), modifier |-> NULL,
     highlight |-> NoHighlight]

\* what draw_image draws on `output`; in: the globals it reads, seed: the
\* state of the generator when it is called
IndicatorPicture(in, seed) ==
    IF ~IndicatorShown(in.unlock_indicator, in.unlock_state, in.auth_state)
    THEN BlankIndicator
    ELSE [ring |-> TRUE,
          fill |-> NORD(1),
          ringColor |-> RingColor(in.auth_state, in.unlock_state, NORD(1)),
          text |-> StatusText(in.auth_state, in.unlock_state,
                              in.show_failed_attempts, in.failed_attempts),
          textColor |-> TextColor(in.auth_state, in.unlock_state,
                                  in.show_failed_attempts, in.failed_attempts),
          modifier |-> IF in.auth_state = STATE_AUTH_WRONG
                          /\ in.modifier_string # NULL
                       THEN in.modifier_string ELSE NULL,
          highlight |->
              IF HighlightShown(in.unlock_indicator, in.unlock_state,
                                in.auth_state)
              THEN [shown |-> TRUE, start |-> HighlightStart(Rand(seed)),
                    color |-> HighlightColor(in.unlock_state)]
              ELSE NoHighlight]

\* two decimal digits, as %H, %M and %d print them
TwoDigits(n) == DigitChar(n \div 10) \o DigitChar(n % 10)

\* strftime(time_text, 8, "%H:%M", now)
TimeText(t) == TwoDigits(t.hour) \o ":" \o TwoDigits(t.min)

\* strftime(date_text, 32, "%a, %B %d", now)
DateText(t) == t.wday \o ", " \o t.month \o " " \o TwoDigits(t.mday)

\* what draw_image draws on `clock_output`
ClockPicture(in) ==
    IF in.clock_visible
    THEN [shown |-> TRUE, time |-> TimeText(in.now), date |-> DateText(in.now)]
    ELSE [shown |-> FALSE, time |-> NULL, date |-> NULL]

IndicatorOriginUncentered(pos, len, d) == pos + (len \div 2)

\* top-left corner at which a buffer of side d is composited on an extent
\* that starts at pos and is len long
IndicatorOrigin(pos, len, d) == pos + ((len \div 2) - (d \div 2))

\* top-left corner at which the clock buffer of extent c is composited
ClockOrigin(pos, len, c, margin) == pos + len - c - margin

\* the rectangles draw_image composites onto: every RandR screen, or the
\* whole root window when xr_screens = 0
TargetRects(rects, res) ==
    IF Len(rects) > 0 THEN rects
    ELSE <<[x |-> 0, y |-> 0, width |-> res[1], height |-> res[2]]>>

\* the two cairo_fill calls of one loop iteration.  All operands are small
\* and non-negative, so C's int and uint32_t arithmetic gives these values.
BlitsFor(r, d, cw, ch, margin) ==
    << [what |-> "indicator",
        x |-> IndicatorOrigin(r.x, r.width, d),
        y |-> IndicatorOrigin(r.y, r.height, d),
        w |-> d, h |-> d],
       [what |-> "clock",
        x |-> ClockOrigin(r.x, r.width, cw, margin),
        y |-> ClockOrigin(r.y, r.height, ch, margin),
        w |-> cw, h |-> ch] >>

RECURSIVE BlitsOver(_, _, _, _, _)
BlitsOver(rects, d, cw, ch, margin) ==
    IF rects = <<>> THEN <<>>
    ELSE BlitsFor(Head(rects), d, cw, ch, margin)
            \o BlitsOver(Tail(rects), d, cw, ch, margin)

Blits(in) ==
    BlitsOver(TargetRects(in.xr_resolutions, in.last_resolution),
              Physical(in.dpi, BUTTON_DIAMETER),
              Physical(in.dpi, CLOCK_WIDTH),
              Physical(in.dpi, CLOCK_HEIGHT),
              Physical(in.dpi, CLOCK_MARGIN))

ClearPixmapSkipped(old, in) == old

\* cairo_rectangle(0, 0, resolution) + cairo_fill with the background
\* colour: whatever the pixmap held is painted over
ClearPixmap(old, in) ==
    <<[op |-> "fill", arg |-> in.color, area |-> in.last_resolution]>>

\* the image, painted once or as a repeated pattern
PaintImage(in) ==
    IF ~in.img THEN <<>>
    ELSE <<[op |-> IF in.tile THEN "pattern" ELSE "paint", arg |-> "img",
            area |-> in.last_resolution]>>

\* the drawing operations bg_pixmap holds after draw_image
DrawImage(old, in, seed) ==
    ClearPixmap(old, in) \o PaintImage(in)
        \o <<[op |-> "composite",
              arg |-> [indicator |-> IndicatorPicture(in, seed),
                       clock |-> ClockPicture(in)],
              area |-> Blits(in)]>>

(***************************************************************************)
(* Values the collaborators supply.                                        *)
(***************************************************************************)
Counts == {0, 7, 42, 999, 1000, 1001, 32767}
FewCounts == {0, 5}
Modifiers == {NULL, "Caps Lock"}
\* color, img, tile
Fills == { <<"ffffff", FALSE, FALSE>>, <<"2e3440", TRUE, FALSE>>,
           <<"ffffff", TRUE, TRUE>> }
Resolutions == {<<1920, 1080>>, <<1281, 1025>>, <<160, 121>>}
Layouts ==
    { <<>>,
      <<[x |-> 0, y |-> 0, width |-> 1281, height |-> 1025]>>,
      <<[x |-> 0, y |-> 0, width |-> 1920, height |-> 1080],
        [x |-> 1920, y |-> 27, width |-> 1281, height |-> 1025]>> }
Dpis == {96, 120, 144}
Times == { [hour |-> 9, min |-> 5, wday |-> "Sun", month |-> "November",
            mday |-> 1],
           [hour |-> 23, min |-> 59, wday |-> "Thu", month |-> "December",
            mday |-> 31] }
Seeds == {0, 1}
NoFailure == {FALSE}
MayFail == BOOLEAN

NoFrame == [presented |-> FALSE]

\* the globals draw_image reads, with unlock_state as the caller left it
Inputs(u) ==
    [unlock_state |-> u, auth_state |-> auth_state,
     failed_attempts |-> failed_attempts,
     modifier_string |-> modifier_string,
     unlock_indicator |-> unlock_indicator, clock_visible |-> clock_visible,
     show_failed_attempts |-> show_failed_attempts,
     img |-> img, tile |-> tile, color |-> color,
     last_resolution |-> last_resolution, xr_resolutions |-> xr_resolutions,
     dpi |-> dpi, now |-> now]

(***************************************************************************)
(* Operations of unlock_indicator.c.                                       *)
(***************************************************************************)
NeedsPixmapAlways(pm) == TRUE

\* bg_pixmap == XCB_NONE: redraw_screen allocates
NeedsPixmap(pm) == pm = XCB_NONE

\* the calls redraw_screen makes after draw_image
Present == <<"xcb_change_window_attributes", "xcb_clear_area", "xcb_flush">>

\* the body of redraw_screen, run with unlock_state = u.  failed: one of
\* the allocations (pixmap, output, clock_output, xcb_output) fails; none
\* of the results is tested, so every call is still made.
Redraw(entry, u, failed) ==
    LET alloc == NeedsPixmap(bg_pixmap)
        pm == IF alloc THEN next_id + 1 ELSE bg_pixmap
        in == Inputs(u)
        hl == HighlightShown(unlock_indicator, u, auth_state)
        content == DrawImage(IF alloc THEN <<>> ELSE surface, in, rand_next)
    IN  /\ hl => rand_calls < MaxRandCalls
        /\ bg_pixmap' = pm
        /\ next_id' = IF alloc THEN next_id + 1 ELSE next_id
        /\ pixmap_size' = IF alloc THEN last_resolution ELSE pixmap_size
        /\ surface' = content
        /\ invalidated' = FALSE
        /\ repeated' = (frame.presented /\ frame.in = in
                            /\ frame.seed = rand_next)
        /\ rand_next' = IF hl THEN Rand(rand_next) ELSE rand_next
        /\ rand_calls' = IF hl THEN rand_calls + 1 ELSE rand_calls
        /\ frame' = [presented |-> TRUE, pixmap |-> pm,
                     area |-> last_resolution, content |-> content,
                     in |-> in, seed |-> rand_next, failed |-> failed]
        /\ ops' = entry
                    \o (IF alloc THEN <<"create_bg_pixmap">> ELSE <<>>)
                    \o <<"draw_image">> \o Present

redraw_screen(F) ==
    /\ \E failed \in F : Redraw(<<"redraw_screen">>, unlock_state, failed)
    /\ UNCHANGED <<holder, config, geometry, now>>

ClearedStateKeyPressed(pos) == STATE_KEY_PRESSED

\* the state clear_indicator selects
ClearedState(pos) ==
    IF pos = 0 THEN STATE_STARTED ELSE STATE_KEY_PRESSED

clear_indicator(F) ==
    /\ unlock_state' = ClearedState(input_position)
    /\ \E failed \in F :
          Redraw(<<"clear_indicator", "redraw_screen">>,
                 ClearedState(input_position), failed)
    /\ UNCHANGED <<auth_state, input_position, failed_attempts,
                   modifier_string, config, geometry, now>>

free_bg_pixmap ==
    /\ next_id < MaxPixmaps
    /\ bg_pixmap' = XCB_NONE
    /\ pixmap_size' = <<0, 0>>
    /\ surface' = <<>>
    /\ invalidated' = TRUE
    /\ ops' = <<"free_bg_pixmap", "xcb_free_pixmap">>
    /\ UNCHANGED <<holder, config, geometry, now, rand_next, rand_calls,
                   next_id, repeated, frame>>

(***************************************************************************)
(* The collaborators: they assign the globals and call the operations.     *)
(***************************************************************************)
set_auth_state ==
    /\ \E a \in AuthStates : auth_state' = a
    /\ ops' = <<>>
    /\ UNCHANGED <<unlock_state, input_position, failed_attempts,
                   modifier_string, config, geometry, now, rand_next,
                   rand_calls, pixmap, frame>>

set_input_state ==
    /\ \E u \in UnlockStates : unlock_state' = u
    /\ ops' = <<>>
    /\ UNCHANGED <<auth_state, input_position, failed_attempts,
                   modifier_string, config, geometry, now, rand_next,
                   rand_calls, pixmap, frame>>

set_input_position ==
    /\ \E p \in 0 .. MaxInput : input_position' = p
    /\ ops' = <<>>
    /\ UNCHANGED <<unlock_state, auth_state, failed_attempts,
                   modifier_string, config, geometry, now, rand_next,
                   rand_calls, pixmap, frame>>

set_failed_attempts(S) ==
    /\ \E n \in S : failed_attempts' = n
    /\ ops' = <<>>
    /\ UNCHANGED <<unlock_state, auth_state, input_position,
                   modifier_string, config, geometry, now, rand_next,
                   rand_calls, pixmap, frame>>

set_modifier_label ==
    /\ \E m \in Modifiers : modifier_string' = m
    /\ ops' = <<>>
    /\ UNCHANGED <<unlock_state, auth_state, input_position,
                   failed_attempts, config, geometry, now, rand_next,
                   rand_calls, pixmap, frame>>

screen_resized ==
    /\ \E r \in Resolutions \ {last_resolution} : last_resolution' = r
    /\ ops' = <<>>
    /\ UNCHANGED <<holder, config, xr_resolutions, dpi, now, rand_next,
                   rand_calls, pixmap, frame>>

randr_query ==
    /\ \E l \in Layouts : xr_resolutions' = l
    /\ ops' = <<>>
    /\ UNCHANGED <<holder, config, last_resolution, dpi, now, rand_next,
                   rand_calls, pixmap, frame>>

dpi_changed ==
    /\ \E d \in Dpis : dpi' = d
    /\ ops' = <<>>
    /\ UNCHANGED <<holder, config, last_resolution, xr_resolutions, now,
                   rand_next, rand_calls, pixmap, frame>>

clock_tick ==
    /\ \E t \in Times : now' = t
    /\ ops' = <<>>
    /\ UNCHANGED <<holder, config, geometry, rand_next, rand_calls, pixmap,
                   frame>>

\* srand(seed)
reseed ==
    /\ \E s \in Seeds : rand_next' = s
    /\ rand_calls' = 0
    /\ ops' = <<>>
    /\ UNCHANGED <<holder, config, geometry, now, pixmap, frame>>

(***************************************************************************)
(* Initial states and specifications.                                      *)
(***************************************************************************)
\* the state after start-up, before the first redraw
InitState ==
    /\ unlock_state = STATE_STARTED
    /\ auth_state = STATE_AUTH_IDLE
    /\ input_position = 0
    /\ failed_attempts = 0
    /\ modifier_string = NULL
    /\ rand_next = 1
    /\ rand_calls = 0
    /\ bg_pixmap = XCB_NONE
    /\ next_id = 0
    /\ pixmap_size = <<0, 0>>
    /\ surface = <<>>
    /\ invalidated = TRUE
    /\ repeated = FALSE
    /\ frame = NoFrame
    /\ ops = <<>>

FixedGeometry ==
    /\ last_resolution = <<1920, 1080>>
    /\ xr_resolutions = <<>>
    /\ dpi = 96

Noon == [hour |-> 12, min |-> 0, wday |-> "Sun", month |-> "November",
         mday |-> 1]

PlainBackground ==
    /\ img = FALSE /\ tile = FALSE /\ color = "ffffff"

\* indicator: the state holder drives the indicator picture
InitIndicator ==
    /\ InitState /\ FixedGeometry /\ PlainBackground
    /\ unlock_indicator \in BOOLEAN
    /\ show_failed_attempts \in BOOLEAN
    /\ clock_visible = TRUE
    /\ now = Noon

NextIndicator ==
    \/ set_auth_state
    \/ set_input_state
    \/ set_input_position
    \/ set_failed_attempts(FewCounts)
    \/ set_modifier_label
    \/ redraw_screen(NoFailure)
    \/ clear_indicator(NoFailure)

SpecIndicator == InitIndicator /\ [][NextIndicator]_vars

\* counter: the failed-attempt counter takes its whole range of shapes
InitCounter ==
    /\ InitState /\ FixedGeometry /\ PlainBackground
    /\ unlock_indicator = TRUE
    /\ show_failed_attempts \in BOOLEAN
    /\ clock_visible = TRUE
    /\ now = Noon

NextCounter ==
    \/ set_auth_state
    \/ set_input_state
    \/ set_failed_attempts(Counts)
    \/ redraw_screen(NoFailure)

SpecCounter == InitCounter /\ [][NextCounter]_vars

\* surface: the background pixmap is allocated, reused and released
InitSurface ==
    /\ InitState /\ PlainBackground
    /\ last_resolution \in Resolutions
    /\ xr_resolutions = <<>>
    /\ dpi = 96
    /\ unlock_indicator = TRUE
    /\ show_failed_attempts = FALSE
    /\ clock_visible = TRUE
    /\ now = Noon

NextSurface ==
    \/ set_input_state
    \/ set_input_position
    \/ screen_resized
    \/ free_bg_pixmap
    \/ redraw_screen(MayFail)
    \/ clear_indicator(MayFail)

SpecSurface == InitSurface /\ [][NextSurface]_vars

\* repeat: the same inputs are drawn again onto a pixmap that holds the
\* previous frame
InitRepeat ==
    /\ InitState /\ FixedGeometry
    /\ \E f \in Fills : color = f[1] /\ img = f[2] /\ tile = f[3]
    /\ unlock_indicator = TRUE
    /\ show_failed_attempts = FALSE
    /\ clock_visible = TRUE
    /\ now \in Times

NextRepeat ==
    \/ set_input_state
    \/ set_auth_state
    \/ clock_tick
    \/ reseed
    \/ redraw_screen(NoFailure)

SpecRepeat == InitRepeat /\ [][NextRepeat]_vars

\* geometry: monitors, root window size and DPI change
InitGeometry ==
    /\ InitState /\ PlainBackground
    /\ last_resolution \in Resolutions
    /\ xr_resolutions \in Layouts
    /\ dpi \in Dpis
    /\ unlock_indicator = TRUE
    /\ show_failed_attempts = FALSE
    /\ clock_visible = TRUE
    /\ now = Noon

NextGeometry ==
    \/ screen_resized
    \/ randr_query
    \/ dpi_changed
    \/ set_input_state
    \/ redraw_screen(NoFailure)

SpecGeometry == InitGeometry /\ [][NextGeometry]_vars

(***************************************************************************)
(* Reading the presented frame.                                            *)
(***************************************************************************)
\* the most recent operation made the call `name`
Called(log, name) == \E i \in 1 .. Len(log) : log[i] = name
Count(log, name) == Cardinality({i \in 1 .. Len(log) : log[i] = name})
Entry(log) == IF log = <<>> THEN "" ELSE Head(log)

\* the indicator picture of the presented frame
Pic == frame.content[Len(frame.content)].arg.indicator
\* the globals the presented frame was drawn from
In == frame.in
\* the presented frame was drawn with the unlock indicator enabled
Drawn == frame.presented /\ In.unlock_indicator

(***************************************************************************)
(* C1: with the unlock indicator enabled, a redraw draws the ring if and   *)
(* only if InputState is not Started or AuthState is not Idle; for (Idle,  *)
(* Started) neither ring nor status text is drawn.                         *)
(***************************************************************************)
C1_RingVisibility ==
    Drawn =>
        /\ Pic.ring <=> (In.unlock_state # STATE_STARTED
                            \/ In.auth_state # STATE_AUTH_IDLE)
        /\ (In.unlock_state = STATE_STARTED
                /\ In.auth_state = STATE_AUTH_IDLE)
              => (~Pic.ring /\ Pic.text = NULL)

C1_Witness ==
    /\ Drawn
    /\ In.unlock_state = STATE_STARTED /\ In.auth_state = STATE_AUTH_IDLE
    /\ ~Pic.ring
    /\ surface = frame.content

(***************************************************************************)
(* C3 as stated: with AuthState Idle, InputState NothingToDelete, the      *)
(* failed-attempt display enabled and the counter > 0, the text drawn is   *)
(* "No input".                                                             *)
(***************************************************************************)
C3_NoInputBeforeCounter ==
    (Drawn /\ In.auth_state = STATE_AUTH_IDLE
        /\ In.unlock_state = STATE_NOTHING_TO_DELETE
        /\ In.show_failed_attempts /\ In.failed_attempts > 0)
      => Pic.text = "No input"

(***************************************************************************)
(* C3 amended: the AuthState text takes precedence over the failed-attempt *)
(* counter text, which takes precedence over "No input"; "No input" is     *)
(* drawn only when AuthState is Idle, InputState is NothingToDelete and    *)
(* the counter is not shown.                                               *)
(***************************************************************************)
C3_CounterBeforeNoInput ==
    (Drawn /\ Pic.ring) =>
        LET counter == In.show_failed_attempts /\ In.failed_attempts > 0
            nothing == In.unlock_state = STATE_NOTHING_TO_DELETE
        IN  CASE In.auth_state = STATE_AUTH_VERIFY ->
                    Pic.text = "Verifying..."
              [] In.auth_state = STATE_AUTH_LOCK -> Pic.text = "Locking..."
              [] In.auth_state = STATE_AUTH_WRONG -> Pic.text = "Wrong!"
              [] In.auth_state = STATE_I3LOCK_LOCK_FAILED ->
                    Pic.text = "Lock failed!"
              [] OTHER ->
                    /\ counter => Pic.text \notin {NULL, "No input"}
                    /\ (~counter /\ nothing) => Pic.text = "No input"
                    /\ (~counter /\ ~nothing) => Pic.text = NULL

C3_Witness ==
    /\ Drawn /\ Pic.ring
    /\ In.auth_state = STATE_AUTH_IDLE
    /\ In.unlock_state = STATE_NOTHING_TO_DELETE
    /\ In.show_failed_attempts /\ In.failed_attempts > 0
    /\ Pic.text = "5"

(***************************************************************************)
(* C7: clear_indicator sets InputState to Started when input_position is 0 *)
(* and to KeyPressed otherwise, whatever it was before, leaves AuthState   *)
(* unchanged and redraws exactly once from the new InputState; with an     *)
(* empty buffer and AuthState Idle the presented frame has no ring.        *)
(***************************************************************************)
C7_ClearIndicator ==
    [][Entry(ops') = "clear_indicator" =>
        /\ unlock_state' = IF input_position = 0 THEN STATE_STARTED
                           ELSE STATE_KEY_PRESSED
        /\ auth_state' = auth_state
        /\ Count(ops', "redraw_screen") = 1
        /\ Count(ops', "draw_image") = 1
        /\ Count(ops', "xcb_change_window_attributes") = 1
        /\ frame'.presented
        /\ frame'.in.unlock_state = unlock_state'
        /\ frame'.in.auth_state = auth_state
        /\ ~Pic'.highlight.shown
        /\ Pic'.text # "No input"
        /\ (input_position = 0 /\ auth_state = STATE_AUTH_IDLE)
              => ~Pic'.ring
        /\ (input_position # 0 /\ unlock_indicator) => Pic'.ring
      ]_vars

C7_Witness ==
    /\ Entry(ops) = "clear_indicator"
    /\ input_position = 0 /\ auth_state = STATE_AUTH_IDLE
    /\ unlock_state = STATE_STARTED
    /\ rand_calls > 0
    /\ Drawn /\ ~Pic.ring

C10_TextColor ==
    (Drawn /\ Pic.ring /\ Pic.text # NULL) =>
        /\ In.auth_state \in {STATE_AUTH_VERIFY, STATE_AUTH_LOCK}
              => Pic.textColor = NORD(9)
        /\ In.auth_state \in {STATE_AUTH_WRONG, STATE_I3LOCK_LOCK_FAILED}
              => Pic.textColor = NORD(11)
        /\ (In.auth_state = STATE_AUTH_IDLE /\ Pic.text = "No input")
              => Pic.textColor = NORD(12)
        /\ (In.auth_state = STATE_AUTH_IDLE /\ Pic.text # "No input")
              => Pic.textColor = NORD(11)

C4_AbortOnFailure ==
    (frame.presented /\ frame.failed /\ Called(ops, "draw_image")) =>
        /\ ~Called(ops, "xcb_change_window_attributes")
        /\ ~Called(ops, "xcb_clear_area")
        /\ ~Called(ops, "xcb_flush")

C6_CounterText ==
    (Drawn /\ Pic.ring /\ In.auth_state = STATE_AUTH_IDLE) =>
        LET n == In.failed_attempts
            none == IF In.unlock_state = STATE_NOTHING_TO_DELETE
                    THEN "No input" ELSE NULL
        IN  /\ (~In.show_failed_attempts \/ n = 0) => Pic.text = none
            /\ (In.show_failed_attempts /\ n \in 1 .. 999) =>
                  /\ Pic.text = Join(Digits(n))
                  /\ n = 7 => Pic.text = "7"
                  /\ n = 42 => Pic.text = "42"
                  /\ n = 999 => Pic.text = "999"
            /\ (In.show_failed_attempts /\ n >= 1000) => Pic.text = "> 999"

C6_Witness ==
    /\ Drawn /\ Pic.ring /\ In.auth_state = STATE_AUTH_IDLE
    /\ In.show_failed_attempts /\ In.failed_attempts = 1000
    /\ Pic.text = "> 999"

(***************************************************************************)
(* C9: for every monitor rectangle the indicator buffer is composited with *)
(* its centre within 1 pixel of the rectangle's centre and the clock       *)
(* buffer with its bottom-right corner at the rectangle's bottom-right     *)
(* corner inset by the physical margin; with no monitor known the same     *)
(* placement is applied once to (0, 0, resolution).                        *)
(***************************************************************************)
Ceil96(n) == -((-n) \div 96)
Abs(n) == IF n < 0 THEN -n ELSE n

C9_Placement ==
    frame.presented =>
        LET rects == IF In.xr_resolutions # <<>> THEN In.xr_resolutions
                     ELSE <<[x |-> 0, y |-> 0,
                             width |-> In.last_resolution[1],
                             height |-> In.last_resolution[2]]>>
            blits == frame.content[Len(frame.content)].area
            margin == Ceil96(In.dpi * 24)
        IN  /\ Len(blits) = 2 * Len(rects)
            /\ \A i \in 1 .. Len(rects) :
                LET r == rects[i]
                    b == blits[2 * i - 1]
                    c == blits[2 * i]
                IN  /\ b.what = "indicator"
                    /\ b.w = Ceil96(In.dpi * 190) /\ b.h = b.w
                    /\ Abs((2 * b.x + b.w) - (2 * r.x + r.width)) <= 2
                    /\ Abs((2 * b.y + b.h) - (2 * r.y + r.height)) <= 2
                    /\ c.what = "clock"
                    /\ c.x + c.w = r.x + r.width - margin
                    /\ c.y + c.h = r.y + r.height - margin

C9_Witness ==
    /\ frame.presented
    /\ Len(In.xr_resolutions) = 2
    /\ In.dpi = 120
    /\ Len(frame.content[Len(frame.content)].area) = 4
    /\ frame.content[Len(frame.content)].area[3].x = 1920 + 640 - 119
====
